---------------------------- MODULE Spec2Model ----------------------------
(***************************************************************************)
(* Challenge issuance / validation of questLog (src/main.py).              *)
(*                                                                         *)
(* The process-wide dictionary challenge_cache, fix_challenge,             *)
(* validate_challenge and the two HTTP handlers that use them.             *)
(*                                                                         *)
(* Modelling conventions                                                   *)
(*  - time() is the integer clock `now`; it only moves forward.            *)
(*  - os.urandom and the library's own random draws (the EAX nonce, the    *)
(*    OAEP seed) are one stream of draws that never repeats: the i-th draw *)
(*    is the byte string <<i>>.  Collisions of 128/256-bit random values   *)
(*    are not modelled.                                                    *)
(*  - AES-EAX and RSA-OAEP are symbolic: a ciphertext is a term that only  *)
(*    the matching key opens.                                              *)
(*  - str.hex() of the solution is computed nibble by nibble, so prefixes  *)
(*    and truncations of a solution are real values.                       *)
(*  - the Dgraph store is reduced to the map uid -> registered public key. *)
(*    The store is assumed reachable (no transport failure of a query).    *)
(***************************************************************************)
EXTENDS Integers, Sequences, FiniteSets, TLC

VARIABLES
    challenge_cache,   \* main.py:41  dict uid -> challenge record
    keystore,          \* Dgraph: uid -> registered public key
    config,            \* main.cfg values read by the core
    now,               \* time()
    entropy,           \* number of random draws made so far
    resp,              \* response being returned by the request in hand
    handed,            \* payloads handed to clients: [uid, payload]
    issued,            \* every record ever stored, in order: [uid, rec]
    accepted,          \* validations that returned True: [uid, solution, expiry]
    th                 \* per-thread state of the concurrent requests

vars == <<challenge_cache, keystore, config, now, entropy, resp, handed,
          issued, accepted, th>>

---------------------------------------------------------------------------
(* Bounds of the model *)

MaxTime == 2
MaxRegen == 2

\* the clock of the concurrent specification stops earlier
MaxRaceTime == 1

\* values of challenge_expiry_time in main.cfg that the model is run with:
\* a zero duration and one that spans a clock tick; for the concurrent
\* specification a zero duration and one of a single tick
ExpiryTimes == {0, 2}
RaceExpiryTimes == {0, 1}

\* the times at which a query to the graph database can fail
OutageTimes == {0}

(* Random draws of one regeneration: solution (162), session (163), the    *)
(* EAX nonce (164) and the OAEP seed (169-170).                            *)
DrawsPerChallenge == 4

MaxDraws == MaxRegen * DrawsPerChallenge

Uids == {"alice", "bob", "mallory", "ghost"}

\* the users the concurrent requests are made for
RaceUids == {"alice"}
Threads == {"t1", "t2"}

---------------------------------------------------------------------------
(* Byte strings, hex and ASCII *)

\* os.urandom(n): the i-th draw of the process
Urandom(i) == <<i>>

RECURSIVE Hex(_)
\* bytes.hex(): two hex digits (0..15) per byte
Hex(bytes) ==
    IF bytes = <<>> THEN <<>>
    ELSE <<Head(bytes) \div 16, Head(bytes) % 16>> \o Hex(Tail(bytes))

\* one hex digit as its ASCII code ('0'..'9' = 48..57, 'a'..'f' = 97..102)
AsciiOf(d) == IF d < 10 THEN 48 + d ELSE 87 + d
DigitOf(c) == IF c < 58 THEN c - 48 ELSE c - 87

\* str.encode("ascii") and bytes.decode("utf-8") on a hex string
Encode(str) == [i \in 1..Len(str) |-> AsciiOf(str[i])]
Decode(bytes) == [i \in 1..Len(bytes) |-> DigitOf(bytes[i])]

\* .hex() of a symbolic byte string, and bytes.fromhex of it
ToHex(x) == [hex |-> x]
FromHex(h) == h.hex

---------------------------------------------------------------------------
(* Symbolic cryptography *)

\* AES.new(session, AES.MODE_EAX).encrypt_and_digest(msg) -> (ciphertext, tag)
EncryptAndDigest(session, nonce, msg) ==
    << [eax |-> "ct", key |-> session, nonce |-> nonce, msg |-> msg],
       [eax |-> "tag", key |-> session, nonce |-> nonce, msg |-> msg] >>

MacCheckFailed == <<"ValueError", "MAC check failed">>

\* AES.new(session, AES.MODE_EAX, nonce).decrypt_and_verify(ct, tag)
DecryptAndVerify(session, nonce, ct, tag) ==
    IF /\ ct.key = session /\ ct.nonce = nonce
       /\ tag = [ct EXCEPT !.eax = "tag"]
    THEN ct.msg
    ELSE MacCheckFailed

\* PKCS1_OAEP.new(RSA.import_key(key)).encrypt(session)
OaepEncrypt(key, session, seed) ==
    [oaep |-> key.pair, msg |-> session, seed |-> seed]

\* PKCS1_OAEP.new(private).decrypt(c)
OaepDecrypt(private, c) ==
    IF c.oaep = private THEN c.msg ELSE <<"ValueError", "Incorrect decryption">>

\* Registered public keys.  `usable` is FALSE for stored material that
\* RSA.import_key or the OAEP encryption of a 16-byte session key rejects.
InitKeystore ==
    [u \in {"alice", "bob", "mallory"} |->
        IF u = "alice" THEN [pair |-> "A", usable |-> TRUE]
        ELSE IF u = "bob" THEN [pair |-> "B", usable |-> TRUE]
        ELSE [pair |-> "M", usable |-> FALSE]]

---------------------------------------------------------------------------
(* The challenge cache and fix_challenge *)

\* challenge_cache.pop(uid) (the key may be absent in this total version)
Pop(cache, uid) == [u \in DOMAIN cache \ {uid} |-> cache[u]]

\* fault of line 166: setdefault instead of update (the first write stays)
UpdateKeepFirst(cache, uid, rec) ==
    [u \in DOMAIN cache \cup {uid} |->
        IF u = uid /\ uid \notin DOMAIN cache THEN rec ELSE cache[u]]

\* challenge_cache.update({uid: rec})
Update(cache, uid, rec) ==
    [u \in DOMAIN cache \cup {uid} |-> IF u = uid THEN rec ELSE cache[u]]

\* faults of the expiry test of line 151: the comparison turned round,
\* no expiry at all, and the boundary included
IsFreshInverted(rec, t) == rec.expiry < t
IsFreshAlways(rec, t) == TRUE
IsFreshInclusive(rec, t) == rec.expiry >= t

\* line 151: challenge_cache[uid]["expiry"] > time()
IsFresh(rec, t) == rec.expiry > t

\* fault of line 165: the raw random bytes are encrypted, not the hex
\* string that is kept as the solution
NewRecordRawBytes(key, e, t, D) ==
    LET solution == Hex(Urandom(e))
        session == Urandom(e + 1)
        nonce == Urandom(e + 2)
        final == EncryptAndDigest(session, nonce, Urandom(e))
    IN  [solution |-> solution,
         challenge |-> ToHex(final[1]),
         session |-> ToHex(OaepEncrypt(key, session, Urandom(e + 3))),
         nonce |-> ToHex(nonce),
         tag |-> ToHex(final[2]),
         expiry |-> t + D]

\* fault of line 164: a fixed nonce is passed to AES.new
NewRecordFixedNonce(key, e, t, D) ==
    LET solution == Hex(Urandom(e))
        session == Urandom(e + 1)
        nonce == Urandom(0)
        final == EncryptAndDigest(session, nonce, Encode(solution))
    IN  [solution |-> solution,
         challenge |-> ToHex(final[1]),
         session |-> ToHex(OaepEncrypt(key, session, Urandom(e + 3))),
         nonce |-> ToHex(nonce),
         tag |-> ToHex(final[2]),
         expiry |-> t + D]

\* fault of line 173: the configured duration is not added
NewRecordNoDuration(key, e, t, D) ==
    LET solution == Hex(Urandom(e))
        session == Urandom(e + 1)
        nonce == Urandom(e + 2)
        final == EncryptAndDigest(session, nonce, Encode(solution))
    IN  [solution |-> solution,
         challenge |-> ToHex(final[1]),
         session |-> ToHex(OaepEncrypt(key, session, Urandom(e + 3))),
         nonce |-> ToHex(nonce),
         tag |-> ToHex(final[2]),
         expiry |-> t]

\* lines 162-173: the record of a regeneration whose first draw is e,
\* stored at time t
NewRecord(key, e, t, D) ==
    LET solution == Hex(Urandom(e))
        session == Urandom(e + 1)
        nonce == Urandom(e + 2)
        final == EncryptAndDigest(session, nonce, Encode(solution))
    IN  [solution |-> solution,
         challenge |-> ToHex(final[1]),
         session |-> ToHex(OaepEncrypt(key, session, Urandom(e + 3))),
         nonce |-> ToHex(nonce),
         tag |-> ToHex(final[2]),
         expiry |-> t + D]

\* lines 154-161: graph_get("userkey", ...)[0]["key"].  An unknown uid gives
\* an empty list, [0] raises IndexError, `except Exception` catches it first
\* and json_dumps(error) raises TypeError out of fix_challenge.
KeyLookup(ks, uid) == IF uid \in DOMAIN ks THEN "ok" ELSE "TypeError"

\* fault of lines 153-155: the key is fetched before the expired entry is
\* evicted, so a failed fetch leaves the expired entry in place
FixChallengeFetchFirst(cache, ks, D, uid, t1, t2, e) ==
    IF uid \in DOMAIN cache /\ IsFresh(cache[uid], t1)
    THEN [cache |-> cache, entropy |-> e, regen |-> FALSE, out |-> "None"]
    ELSE IF KeyLookup(ks, uid) # "ok"
    THEN [cache |-> cache, entropy |-> e, regen |-> FALSE,
          out |-> KeyLookup(ks, uid)]
    ELSE IF ~ks[uid].usable
    THEN [cache |-> cache, entropy |-> e, regen |-> FALSE,
          out |-> "ValueError"]
    ELSE [cache |-> Update(Pop(cache, uid), uid,
                           NewRecord(ks[uid], e, t2, D)),
          entropy |-> e + DrawsPerChallenge, regen |-> TRUE, out |-> "None"]

\* fault of line 155: the key fetched when the process started is reused
FixChallengeCachedKey(cache, ks, D, uid, t1, t2, e) ==
    IF uid \in DOMAIN cache /\ IsFresh(cache[uid], t1)
    THEN [cache |-> cache, entropy |-> e, regen |-> FALSE, out |-> "None"]
    ELSE IF KeyLookup(ks, uid) # "ok"
    THEN [cache |-> Pop(cache, uid), entropy |-> e, regen |-> FALSE,
          out |-> KeyLookup(ks, uid)]
    ELSE IF ~ks[uid].usable
    THEN [cache |-> Pop(cache, uid), entropy |-> e, regen |-> FALSE,
          out |-> "ValueError"]
    ELSE [cache |-> Update(Pop(cache, uid), uid,
                           NewRecord(InitKeystore[uid], e, t2, D)),
          entropy |-> e + DrawsPerChallenge, regen |-> TRUE, out |-> "None"]

\* fault of line 152: a fresh record's expiry is extended on access
FixChallengeSliding(cache, ks, D, uid, t1, t2, e) ==
    IF uid \in DOMAIN cache /\ IsFresh(cache[uid], t1)
    THEN [cache |-> [cache EXCEPT ![uid].expiry = t1 + D + 1],
          entropy |-> e, regen |-> FALSE, out |-> "None"]
    ELSE IF KeyLookup(ks, uid) # "ok"
    THEN [cache |-> Pop(cache, uid), entropy |-> e, regen |-> FALSE,
          out |-> KeyLookup(ks, uid)]
    ELSE IF ~ks[uid].usable
    THEN [cache |-> Pop(cache, uid), entropy |-> e, regen |-> FALSE,
          out |-> "ValueError"]
    ELSE [cache |-> Update(Pop(cache, uid), uid,
                           NewRecord(ks[uid], e, t2, D)),
          entropy |-> e + DrawsPerChallenge, regen |-> TRUE, out |-> "None"]

\* fix_challenge(uid), called at time t1, storing (if it does) at time t2.
\* out is "None" for a normal return and the exception's name otherwise.
\* The draws of a regeneration that fails at line 169 are never stored or
\* shown, so they are not counted.
FixChallenge(cache, ks, D, uid, t1, t2, e) ==
    LET evicted == Pop(cache, uid) IN
    IF uid \in DOMAIN cache /\ IsFresh(cache[uid], t1)
    THEN [cache |-> cache, entropy |-> e, regen |-> FALSE, out |-> "None"]
    ELSE IF KeyLookup(ks, uid) # "ok"
    THEN [cache |-> evicted, entropy |-> e, regen |-> FALSE,
          out |-> KeyLookup(ks, uid)]
    ELSE IF ~ks[uid].usable
    THEN [cache |-> evicted, entropy |-> e, regen |-> FALSE,
          out |-> "ValueError"]
    ELSE [cache |-> Update(evicted, uid, NewRecord(ks[uid], e, t2, D)),
          entropy |-> e + DrawsPerChallenge, regen |-> TRUE, out |-> "None"]

\* fault of line 189: str.startswith instead of ==
SolutionStartsWith(rec, solution) ==
    /\ Len(solution) <= Len(rec.solution)
    /\ SubSeq(rec.solution, 1, Len(solution)) = solution

\* line 189: challenge_cache[uid]["solution"] == solution
SolutionEquals(rec, solution) == rec.solution = solution

\* fault of lines 185-191: validation without the regeneration of line 185
ValidateNoIssue(cache, ks, D, uid, solution, t1, t2, e) ==
    [cache |-> cache, entropy |-> e, regen |-> FALSE,
     out |-> IF uid \in DOMAIN cache /\ cache[uid].expiry > t1
                /\ cache[uid].solution = solution
             THEN "True" ELSE "False"]

\* fault of lines 185-187: a failure of fix_challenge reported as False
ValidateDowngrades(cache, ks, D, uid, solution, t1, t2, e) ==
    LET f == FixChallenge(cache, ks, D, uid, t1, t2, e) IN
    [f EXCEPT !.out =
        IF f.out # "None" THEN "False"
        ELSE IF uid \notin DOMAIN f.cache THEN "False"
        ELSE IF SolutionEquals(f.cache[uid], solution) THEN "True"
        ELSE "False"]

\* validate_challenge(uid, solution): "True", "False" or the exception
\* that fix_challenge raised
ValidateChallenge(cache, ks, D, uid, solution, t1, t2, e) ==
    LET f == FixChallenge(cache, ks, D, uid, t1, t2, e) IN
    [f EXCEPT !.out =
        IF f.out # "None" THEN f.out
        ELSE IF uid \notin DOMAIN f.cache THEN "False"
        ELSE IF SolutionEquals(f.cache[uid], solution) THEN "True"
        ELSE "False"]

\* fault of line 294: the pop of "solution" is missing
PayloadUnredacted(rec) == rec

\* lines 292-294: challenge_cache[uid].copy() without "solution"
Payload(rec) == [k \in DOMAIN rec \ {"solution"} |-> rec[k]]

NoPayload == [none |-> TRUE]

---------------------------------------------------------------------------
(* The client *)

\* the private key a client of uid holds
PrivateKey(uid) == IF uid \in DOMAIN InitKeystore THEN InitKeystore[uid].pair
                   ELSE "none"

\* tests/delete_user.py: unwrap the session key, decrypt and verify, decode
ClientSolve(uid, payload) ==
    LET session_key == OaepDecrypt(PrivateKey(uid), FromHex(payload.session))
    IN  Decode(DecryptAndVerify(session_key, FromHex(payload.nonce),
                                FromHex(payload.challenge),
                                FromHex(payload.tag)))

Prefixes(s) == {SubSeq(s, 1, k) : k \in 0..(Len(s) - 1)}

\* what a client can submit: what it decrypted (its own or another user's
\* solution), a truncation of that (a wrong guess), the empty string
Solved == {ClientSolve(h.uid, h.payload) : h \in handed}

Submissions == {<<>>} \cup Solved \cup UNION {Prefixes(s) : s \in Solved}

---------------------------------------------------------------------------
(* Initial state *)

NoRec == [none |-> TRUE]

\* A request thread: its position (pc, a line of main.py), the request (op,
\* uid, solution), the record it built (mine), its outcome (out, payload)
\* and, as history, the record last stored for uid when it read the cache
\* (latest).
IdleThread == [pc |-> "idle", op |-> "none", uid |-> "none",
               solution |-> <<>>, mine |-> NoRec, out |-> "none",
               payload |-> NoPayload, latest |-> NoRec]

\* A response: the request (op, uid, solution), its outcome (out, payload),
\* and what the request found: `had` is the state of uid's cache entry on
\* arrival, `seen` the payloads of uid handed out before, `replayed` whether
\* this solution had validated before, `regen` whether a record was stored,
\* `missing` whether the body of the request had no "solution" field.
NoResp == [op |-> "none", uid |-> "none", solution |-> <<>>,
           out |-> "none", payload |-> NoPayload,
           had |-> "absent", seen |-> {}, replayed |-> FALSE,
           regen |-> FALSE, missing |-> FALSE]

Start0(durations) ==
    /\ challenge_cache = <<>>
    /\ keystore = InitKeystore
    /\ config \in [challenge_expiry_time : durations]
    /\ now = 0
    /\ entropy = 0
    /\ resp = NoResp
    /\ handed = {}
    /\ issued = <<>>
    /\ accepted = {}
    /\ th = [t \in Threads |-> IdleThread]

Init == Start0(ExpiryTimes)

---------------------------------------------------------------------------
(* Sequential requests: one action per handler *)

\* The sequential server handles one request at a time: a handler runs to
\* its return (resp), the response is sent (Respond), and only then the
\* next request is taken or the clock is read again.
Idle == resp = NoResp

Respond ==
    /\ ~Idle
    /\ resp' = NoResp
    /\ UNCHANGED <<challenge_cache, keystore, config, now, entropy, handed,
                   issued, accepted, th>>

\* time passes
Clock(max) ==
    /\ Idle
    /\ now < max
    /\ now' = now + 1
    /\ UNCHANGED <<challenge_cache, keystore, config, entropy, resp, handed,
                   issued, accepted, th>>

\* the clock advances between requests
Tick == Clock(MaxTime)

\* what a request for uid finds in the cache on arrival
Had(uid) ==
    IF uid \notin DOMAIN challenge_cache THEN "absent"
    ELSE IF challenge_cache[uid].expiry > now THEN "fresh"
    ELSE "expired"

\* the request part of a response
Request(op, uid, solution) ==
    [NoResp EXCEPT !.op = op, !.uid = uid, !.solution = solution,
       !.had = Had(uid),
       !.seen = {h.payload : h \in {x \in handed : x.uid = uid}},
       !.replayed = \E a \in accepted :
                       a.uid = uid /\ a.solution = solution]

\* history of the records stored
IssuedSet == {issued[k] : k \in DOMAIN issued}

Record(f, uid) ==
    IF f.regen THEN Append(issued, [uid |-> uid, rec |-> f.cache[uid]])
    ELSE issued

\* history of the solutions that validated
Accept(v, uid, solution) ==
    IF v.out = "True"
    THEN accepted \cup {[uid |-> uid, solution |-> solution,
                         expiry |-> v.cache[uid].expiry]}
    ELSE accepted

\* GET /api/challenge/<uid>  (api_user_auth_challenge_handle)
GetChallenge(uid) ==
    LET f == FixChallenge(challenge_cache, keystore,
                          config.challenge_expiry_time, uid, now, now,
                          entropy)
        served == f.out = "None"
        payload == IF served THEN Payload(f.cache[uid]) ELSE NoPayload
    IN
    /\ Idle
    /\ IF uid \notin DOMAIN keystore
       THEN \* check_exists(data) returns the 404 response
            /\ resp' = [Request("get", uid, <<>>) EXCEPT !.out = "404"]
            /\ UNCHANGED <<challenge_cache, entropy, handed, issued>>
       ELSE /\ f.entropy <= MaxDraws
            /\ challenge_cache' = f.cache
            /\ entropy' = f.entropy
            /\ issued' = Record(f, uid)
            /\ handed' = IF served
                         THEN handed \cup {[uid |-> uid, payload |-> payload]}
                         ELSE handed
            /\ resp' = [Request("get", uid, <<>>) EXCEPT
                          !.regen = f.regen,
                          !.out = IF served THEN "200" ELSE f.out,
                          !.payload = payload]
    /\ UNCHANGED <<keystore, config, now, accepted, th>>

\* validate_challenge(uid, solution) called as the core's check_solution
Validate(uid, solution) ==
    LET v == ValidateChallenge(challenge_cache, keystore,
                               config.challenge_expiry_time, uid, solution,
                               now, now, entropy)
    IN
    /\ Idle
    /\ v.entropy <= MaxDraws
    /\ challenge_cache' = v.cache
    /\ entropy' = v.entropy
    /\ issued' = Record(v, uid)
    /\ accepted' = Accept(v, uid, solution)
    /\ resp' = [Request("validate", uid, solution) EXCEPT
                  !.regen = v.regen, !.out = v.out]
    /\ UNCHANGED <<keystore, config, now, handed, th>>

\* graph_delete(uid): the node and its key leave the store
GraphDelete(ks, uid) == [u \in DOMAIN ks \ {uid} |-> ks[u]]

\* the JSON body of a PATCH/DELETE: with or without a "solution" field
Bodies == [has : {FALSE}, solution : {<<>>}]
            \cup [has : {TRUE}, solution : Submissions]

\* what the key query of fix_challenge (line 155) can find after the
\* handler's own query (line 347) found the user: the store, or nothing
\* when that second query to the graph fails (at the times of an outage)
KeyQueries == IF now \in OutageTimes THEN {keystore, <<>>} ELSE {keystore}

GateUnlessFalse(out, method) == out # "False" /\ method = "DELETE"

\* the handler's gate (lines 353-359): a result that `is False` returns
\* 401 before graph_delete; an exception leaves the try block
Gate(out, method) == out = "True" /\ method = "DELETE"

\* PATCH|DELETE /api/user/<uid>  (api_user_handle_patch_and_delete)
UserPatchDelete(uid, method, arguments, store) ==
    LET v == ValidateChallenge(challenge_cache, store,
                               config.challenge_expiry_time, uid,
                               arguments.solution, now, now, entropy)
    IN
    /\ Idle
    /\ IF uid \notin DOMAIN keystore
       THEN \* check_exists(data) returns the 404 response
            /\ resp' = [Request(method, uid, <<>>) EXCEPT !.out = "404"]
            /\ UNCHANGED <<challenge_cache, keystore, entropy, issued,
                           accepted>>
       ELSE IF ~arguments.has
       THEN \* arguments["solution"] raises KeyError; the handler builds the
            \* 422 response, does not return it, and falls through to 204
            /\ resp' = [Request(method, uid, <<>>) EXCEPT !.out = "204",
                                                          !.missing = TRUE]
            /\ UNCHANGED <<challenge_cache, keystore, entropy, issued,
                           accepted>>
       ELSE /\ v.entropy <= MaxDraws
            /\ challenge_cache' = v.cache
            /\ entropy' = v.entropy
            /\ issued' = Record(v, uid)
            /\ accepted' = Accept(v, uid, arguments.solution)
            /\ keystore' = IF Gate(v.out, method)
                           THEN GraphDelete(keystore, uid)
                           ELSE keystore
            /\ resp' = [Request(method, uid, arguments.solution) EXCEPT
                          !.regen = v.regen,
                          !.out = IF v.out = "False" THEN "401"
                                  ELSE IF v.out = "True" THEN "204"
                                  ELSE v.out]
    /\ UNCHANGED <<config, now, handed, th>>

Next ==
    \/ Tick
    \/ Respond
    \/ \E uid \in Uids : GetChallenge(uid)
    \/ \E uid \in Uids : \E s \in Submissions : Validate(uid, s)
    \/ \E uid \in Uids : \E method \in {"PATCH", "DELETE"} :
          \E arguments \in Bodies : \E store \in KeyQueries :
             UserPatchDelete(uid, method, arguments, store)

Spec == Init /\ [][Next]_vars

---------------------------------------------------------------------------
(* Concurrent requests: the threaded server runs each request in its own  *)
(* thread, and a thread switch can fall between any two of the cache      *)
(* accesses below.  One action per access; pc names the line reached.     *)

\* the record stored last for uid
LastIssued(uid) ==
    LET ks == {k \in DOMAIN issued : issued[k].uid = uid} IN
    IF ks = {} THEN NoRec
    ELSE issued[CHOOSE k \in ks : \A j \in ks : j <= k].rec

Goto(t, pc) == th' = [th EXCEPT ![t].pc = pc]

\* the thread ends with an outcome (a response, a result or an exception)
Finish(t, out) == th' = [th EXCEPT ![t].pc = "done", ![t].out = out]

\* where fix_challenge returns to
AfterFix(t) == IF th[t].op = "get" THEN "L292" ELSE "L189"

\* a request arrives: GET /api/challenge/<uid>, or validate_challenge
Start(t, op, uid, solution) ==
    /\ Idle
    /\ th[t].pc = "idle"
    /\ th' = [th EXCEPT ![t] = [IdleThread EXCEPT
                !.pc = IF op = "get" THEN "L284" ELSE "L150",
                !.op = op, !.uid = uid, !.solution = solution]]
    /\ UNCHANGED <<challenge_cache, keystore, config, now, entropy, resp,
                   handed, issued, accepted>>

\* lines 284-286: graph_get("user") and check_exists
CheckExists(t) ==
    /\ th[t].pc = "L284"
    /\ IF th[t].uid \in DOMAIN keystore THEN Goto(t, "L150")
       ELSE Finish(t, "404")
    /\ UNCHANGED <<challenge_cache, keystore, config, now, entropy, resp,
                   handed, issued, accepted>>

\* line 150: uid in challenge_cache
TestMember(t) ==
    /\ th[t].pc = "L150"
    /\ IF th[t].uid \in DOMAIN challenge_cache THEN Goto(t, "L151")
       ELSE Goto(t, "L155")
    /\ UNCHANGED <<challenge_cache, keystore, config, now, entropy, resp,
                   handed, issued, accepted>>

\* lines 151-152: challenge_cache[uid]["expiry"] > time()
TestExpiry(t) ==
    /\ th[t].pc = "L151"
    /\ IF th[t].uid \notin DOMAIN challenge_cache THEN Finish(t, "KeyError")
       ELSE IF IsFresh(challenge_cache[th[t].uid], now)
       THEN Goto(t, AfterFix(t))
       ELSE Goto(t, "L153")
    /\ UNCHANGED <<challenge_cache, keystore, config, now, entropy, resp,
                   handed, issued, accepted>>

\* line 153: challenge_cache.pop(uid)
Evict(t) ==
    /\ th[t].pc = "L153"
    /\ IF th[t].uid \notin DOMAIN challenge_cache
       THEN Finish(t, "KeyError") /\ UNCHANGED challenge_cache
       ELSE /\ challenge_cache' = Pop(challenge_cache, th[t].uid)
            /\ Goto(t, "L155")
    /\ UNCHANGED <<keystore, config, now, entropy, resp, handed, issued,
                   accepted>>

\* lines 154-173: the key is fetched and the new record built, time() read
Generate(t) ==
    /\ th[t].pc = "L155"
    /\ IF KeyLookup(keystore, th[t].uid) # "ok"
       THEN Finish(t, KeyLookup(keystore, th[t].uid)) /\ UNCHANGED entropy
       ELSE IF ~keystore[th[t].uid].usable
       THEN Finish(t, "ValueError") /\ UNCHANGED entropy
       ELSE /\ entropy + DrawsPerChallenge <= MaxDraws
            /\ entropy' = entropy + DrawsPerChallenge
            /\ th' = [th EXCEPT ![t].pc = "L166",
                        ![t].mine = NewRecord(keystore[th[t].uid], entropy,
                                       now, config.challenge_expiry_time)]
    /\ UNCHANGED <<challenge_cache, keystore, config, now, resp, handed,
                   issued, accepted>>

\* line 166: challenge_cache.update({uid: ...}); fix_challenge returns None
Store(t) ==
    /\ th[t].pc = "L166"
    /\ challenge_cache' = Update(challenge_cache, th[t].uid, th[t].mine)
    /\ issued' = Append(issued, [uid |-> th[t].uid, rec |-> th[t].mine])
    /\ Goto(t, AfterFix(t))
    /\ UNCHANGED <<keystore, config, now, entropy, resp, handed, accepted>>

\* lines 188-191: challenge_cache[uid]["solution"] == solution, KeyError
\* caught as False
Compare(t) ==
    LET uid == th[t].uid
        out == IF uid \notin DOMAIN challenge_cache THEN "False"
               ELSE IF SolutionEquals(challenge_cache[uid], th[t].solution)
               THEN "True" ELSE "False"
    IN
    /\ th[t].pc = "L189"
    /\ th' = [th EXCEPT ![t].pc = "done", ![t].out = out,
                ![t].latest = LastIssued(uid)]
    /\ UNCHANGED <<challenge_cache, keystore, config, now, entropy, resp,
                   handed, issued, accepted>>

\* lines 292-296: challenge_cache[uid].copy(), pop("solution"), 200
CopyPayload(t) ==
    LET uid == th[t].uid IN
    /\ th[t].pc = "L292"
    /\ IF uid \notin DOMAIN challenge_cache
       THEN Finish(t, "KeyError") /\ UNCHANGED handed
       ELSE /\ th' = [th EXCEPT ![t].pc = "done", ![t].out = "200",
                        ![t].payload = Payload(challenge_cache[uid]),
                        ![t].latest = LastIssued(uid)]
            /\ handed' = handed \cup
                 {[uid |-> uid, payload |-> Payload(challenge_cache[uid])]}
    /\ UNCHANGED <<challenge_cache, keystore, config, now, entropy, resp,
                   issued, accepted>>

\* the response is sent and the thread is free again
Return(t) ==
    /\ th[t].pc = "done"
    /\ th' = [th EXCEPT ![t] = IdleThread]
    /\ UNCHANGED <<challenge_cache, keystore, config, now, entropy, resp,
                   handed, issued, accepted>>

\* the clock advances between any two steps of the threads
RaceTick == Clock(MaxRaceTime)

NextConc ==
    \/ RaceTick
    \/ \E t \in Threads :
         \/ \E uid \in RaceUids : Start(t, "get", uid, <<>>)
         \/ \E uid \in RaceUids : \E s \in {<<>>} \cup Solved :
              Start(t, "validate", uid, s)
         \/ CheckExists(t)
         \/ TestMember(t)
         \/ TestExpiry(t)
         \/ Evict(t)
         \/ Generate(t)
         \/ Store(t)
         \/ Compare(t)
         \/ CopyPayload(t)
         \/ Return(t)

InitConc == Start0(RaceExpiryTimes)

SpecConc == InitConc /\ [][NextConc]_vars

---------------------------------------------------------------------------
(* Properties of the sequential requests *)

\* uid is registered with a key the cipher accepts
Usable(uid) == uid \in DOMAIN keystore /\ keystore[uid].usable

PublicFields == {"session", "nonce", "challenge", "tag", "expiry"}

\* C1 (Freshness): a get_challenge(U) that answers while a payload handed
\* out earlier for U is still inside its validity window (now < its expiry)
\* answers with that same payload, field for field, whatever requests for U
\* or for other users were served in between.
C1_Freshness ==
    (resp.op = "get" /\ resp.out = "200") =>
        \A p \in resp.seen : now < p.expiry => resp.payload = p

\* a second fetch, a clock tick after the first one, with requests for
\* another user and a validation in between
C1_Witness ==
    /\ resp.op = "get" /\ resp.out = "200" /\ now > 0
    /\ \E p \in resp.seen : now < p.expiry /\ resp.payload = p
    /\ DOMAIN challenge_cache # {resp.uid}
    /\ accepted # {}

\* C2 (Round-trip): the value a client recovers from a payload handed out
\* for U (unwrap the session key, decrypt and verify, decode), submitted to
\* validate_challenge(U, .) before the payload's expiry, returns True.
C2_RoundTrip ==
    (resp.op = "validate"
       /\ \E h \in handed :
            /\ h.uid = resp.uid
            /\ now < h.payload.expiry
            /\ ClientSolve(h.uid, h.payload) = resp.solution)
    => resp.out = "True"

\* a true validation a clock tick after the fetch
C2_Witness ==
    /\ resp.op = "validate" /\ resp.out = "True" /\ now > 0
    /\ \E h \in handed :
         /\ h.uid = resp.uid /\ now < h.payload.expiry
         /\ ClientSolve(h.uid, h.payload) = resp.solution

\* C3 (Mismatch rejection): validate_challenge(U, s) returns True only when
\* s equals the solution of U's unexpired cached record; for a registered U
\* (key accepted by the cipher) every other s returns False.
C3_MismatchRejection ==
    resp.op = "validate" =>
        /\ resp.out = "True" =>
             /\ resp.uid \in DOMAIN challenge_cache
             /\ challenge_cache[resp.uid].expiry > now
             /\ challenge_cache[resp.uid].solution = resp.solution
        /\ resp.uid \in DOMAIN challenge_cache =>
             /\ resp.out \in {"True", "False"}
             /\ challenge_cache[resp.uid].solution # resp.solution
                  => resp.out = "False"
        /\ Usable(resp.uid) => resp.uid \in DOMAIN challenge_cache

\* the correct solution of another user is rejected
C3_Witness ==
    /\ resp.op = "validate" /\ resp.out = "False"
    /\ \E v \in DOMAIN challenge_cache \ {resp.uid} :
         /\ challenge_cache[v].expiry > now
         /\ challenge_cache[v].solution = resp.solution
    /\ resp.uid \in DOMAIN challenge_cache

\* C4: the payload of get_challenge(U) has exactly the fields session,
\* nonce, challenge, tag and expiry, each with the value of U's cached
\* record, and no solution; the cached record still has its solution.
C4_PayloadRedacted ==
    /\ \A h \in handed : DOMAIN h.payload = PublicFields
    /\ (resp.op = "get" /\ resp.out = "200") =>
         /\ DOMAIN resp.payload = PublicFields
         /\ resp.uid \in DOMAIN challenge_cache
         /\ \A k \in PublicFields :
              resp.payload[k] = challenge_cache[resp.uid][k]
         /\ DOMAIN challenge_cache[resp.uid] = PublicFields \cup {"solution"}
         /\ Len(challenge_cache[resp.uid].solution) > 0

C4_Witness ==
    /\ resp.op = "get" /\ resp.out = "200"
    /\ resp.payload = Payload(challenge_cache[resp.uid])

\* C5 as claimed (one-time secret): a solution that validate_challenge has
\* accepted for U is not accepted for U again.
C5_OneTime ==
    ~(resp.op = "validate" /\ resp.out = "True" /\ resp.replayed)

\* C5 as amended: a solution that validate_challenge has accepted for U is
\* not accepted again at any time now >= the expiry of the record it
\* solved.
C5_NotAfterExpiry ==
    (resp.op = "validate"
       /\ \E a \in accepted :
            /\ a.uid = resp.uid /\ a.solution = resp.solution
            /\ now >= a.expiry)
    => resp.out # "True"

\* an accepted solution is submitted again after the expiry and refused
C5_Witness ==
    /\ resp.op = "validate" /\ resp.replayed /\ resp.out = "False"
    /\ \E a \in accepted :
         /\ a.uid = resp.uid /\ a.solution = resp.solution
         /\ now >= a.expiry

\* C6: a validate_challenge(U, r.solution) made at now >= r.expiry, for any
\* record r ever stored for U, is not accepted; for a registered U it
\* returns False, the cache then holding a record with another solution;
\* and no user ever has two unexpired records.
C6_ExpiredNeverAccepted ==
    /\ (resp.op = "validate"
          /\ \E i \in IssuedSet :
               /\ i.uid = resp.uid /\ i.rec.solution = resp.solution
               /\ now >= i.rec.expiry)
       => /\ resp.out # "True"
          /\ Usable(resp.uid) =>
               /\ resp.out = "False"
               /\ resp.uid \in DOMAIN challenge_cache
               /\ challenge_cache[resp.uid].solution # resp.solution
    /\ \A i, j \in IssuedSet :
         (i.uid = j.uid /\ now < i.rec.expiry /\ now < j.rec.expiry)
         => i = j

\* the solution of an expired record is submitted and refused
C6_Witness ==
    /\ resp.op = "validate" /\ resp.out = "False" /\ resp.regen
    /\ resp.had = "expired"
    /\ \E i \in IssuedSet :
         /\ i.uid = resp.uid /\ i.rec.solution = resp.solution
         /\ now >= i.rec.expiry

\* C7 (Regeneration): a get_challenge(U) that answers at now >= the expiry
\* of a payload handed out earlier for U answers with a payload whose
\* ciphertext, nonce, tag and wrapped key all differ from that one's; and a
\* record stored by a regeneration has a solution no earlier record had.
C7_Regeneration ==
    /\ (resp.op = "get" /\ resp.out = "200") =>
         \A p \in resp.seen : now >= p.expiry =>
            /\ resp.payload.challenge # p.challenge
            /\ resp.payload.nonce # p.nonce
            /\ resp.payload.tag # p.tag
            /\ resp.payload.session # p.session
    /\ resp.regen =>
         \A i \in IssuedSet :
            i.rec # challenge_cache[resp.uid]
            => i.rec.solution # challenge_cache[resp.uid].solution

\* a fetch that regenerates after the expiry of a payload handed out before
C7_Witness ==
    /\ resp.op = "get" /\ resp.out = "200" /\ resp.regen
    /\ resp.had = "expired"
    /\ \E p \in resp.seen : now >= p.expiry

\* C8 (Unknown user): for a uid with no registered key get_challenge
\* answers not-found and validate_challenge returns False (or an
\* unknown-user value); neither raises another error.
C8_UnknownUser ==
    (resp.op \in {"get", "validate"} /\ resp.uid \notin DOMAIN keystore)
    => resp.out \in {"404", "False", "UnknownUser"}

\* C9 (Issue-then-fail): validate_challenge(U, s) for a registered U whose
\* entry is absent or expired returns False for every s a client can
\* submit and leaves a newly stored record for U; a get_challenge(U) that
\* finds an unexpired record returns that record's payload.
C9_IssueThenFail ==
    /\ (resp.op = "validate" /\ Usable(resp.uid) /\ resp.had # "fresh") =>
         /\ resp.out = "False"
         /\ resp.regen
         /\ resp.uid \in DOMAIN challenge_cache
         /\ challenge_cache[resp.uid].expiry
              = now + config.challenge_expiry_time
         /\ [uid |-> resp.uid, rec |-> challenge_cache[resp.uid]] \in IssuedSet
         /\ \A h \in handed :
              h.payload # Payload(challenge_cache[resp.uid])
    /\ (resp.op = "get" /\ resp.had = "fresh" /\ Usable(resp.uid)) =>
         /\ resp.out = "200"
         /\ ~resp.regen
         /\ resp.payload = Payload(challenge_cache[resp.uid])
         /\ [uid |-> resp.uid, rec |-> challenge_cache[resp.uid]] \in IssuedSet

\* a fetch returns, unexpired, a record that no fetch had handed out: the
\* one a validation issued
C9_Witness ==
    /\ resp.op = "get" /\ resp.out = "200" /\ resp.had = "fresh"
    /\ resp.payload \notin resp.seen
    /\ now > 0

---------------------------------------------------------------------------
(* Properties of the concurrent requests *)

\* a regeneration for uid is between its key fetch and its store
Regenerating(uid) ==
    \E t \in Threads : th[t].uid = uid /\ th[t].pc \in {"L155", "L166"}

\* the thread has stored a record of its own in this request
HasStored(t) ==
    th[t].mine # NoRec /\ th[t].pc \in {"L292", "L189", "done"}

\* C10 (get-or-create race): the cache never holds anything for U but the
\* record of the latest write; once the racing regenerations for U have
\* stored, it holds exactly that record; and every read that returns
\* returns the record of the latest write at that moment, also to the
\* caller whose own write came first.
C10_LaterWriteWins ==
    /\ \A u \in DOMAIN challenge_cache : challenge_cache[u] = LastIssued(u)
    /\ \A u \in Uids :
         (LastIssued(u) # NoRec /\ ~Regenerating(u))
         => u \in DOMAIN challenge_cache
    /\ \A t \in Threads :
         /\ (th[t].pc = "done" /\ th[t].out = "200")
            => th[t].payload = Payload(th[t].latest)
         /\ (th[t].pc = "done" /\ th[t].out = "True")
            => th[t].solution = th[t].latest.solution
         /\ (HasStored(t) /\ ~Regenerating(th[t].uid))
            => challenge_cache[th[t].uid] = LastIssued(th[t].uid)

\* both threads regenerated for the same user; the one whose write came
\* first has read the cache after the second write and returns the
\* record of the second
C10_Witness ==
    \E t, o \in Threads :
        /\ t # o /\ th[t].uid = th[o].uid
        /\ HasStored(t) /\ HasStored(o) /\ th[t].mine # th[o].mine
        /\ th[t].pc = "done" /\ th[t].op = "get" /\ th[t].out = "200"
        /\ th[t].payload = Payload(th[o].mine)
        /\ challenge_cache[th[t].uid] = th[o].mine

---------------------------------------------------------------------------
(* Key rotation: the key store is a separate database server, and the key *)
(* stored for a user can be replaced there between two requests.          *)

RotatingUids == {"alice", "bob"}

\* the key pair a user rotates to
RotatedPair == "R"

\* the node of uid gets another public key in the graph
Rotate(uid) ==
    /\ Idle
    /\ uid \in DOMAIN keystore
    /\ keystore[uid].pair # RotatedPair
    /\ keystore' = [keystore EXCEPT ![uid].pair = RotatedPair]
    /\ UNCHANGED <<challenge_cache, config, now, entropy, resp, handed,
                   issued, accepted, th>>

NextRotate ==
    \/ Tick
    \/ Respond
    \/ \E uid \in RotatingUids : GetChallenge(uid)
    \/ \E uid \in RotatingUids : Validate(uid, <<>>)
    \/ \E uid \in RotatingUids : Rotate(uid)

SpecRotate == Init /\ [][NextRotate]_vars

\* C17 (the key is never cached): every step that stores a record for U
\* wraps the session key under the key the store holds for U in that step,
\* also after the stored key was replaced since the previous regeneration.
C17_KeyFetchedOnRegeneration ==
    [][(resp' # resp /\ resp'.regen)
         => FromHex(challenge_cache'[resp'.uid].session).oaep
              = keystore[resp'.uid].pair]_vars

\* a record wrapped under the first key was issued, the key was replaced,
\* and the regeneration after it wrapped under the new key
C17_Witness ==
    /\ resp.regen
    /\ keystore[resp.uid].pair = RotatedPair
    /\ FromHex(challenge_cache[resp.uid].session).oaep = RotatedPair
    /\ \E k \in DOMAIN issued :
         /\ issued[k].uid = resp.uid
         /\ FromHex(issued[k].rec.session).oaep = InitKeystore[resp.uid].pair

---------------------------------------------------------------------------
(* Properties of the sequential specification: the handlers *)

\* C11 (authentication gate): the key store loses a user only in a DELETE
\* for that user that answers 204 after validate_challenge returned True:
\* the submitted solution is the solution of that user's cached record and
\* the record is fresh. A DELETE answered 401, or one in which
\* fix_challenge failed to retrieve the key, removes nothing.
C11_AuthenticationGate ==
    [][keystore' # keystore =>
         /\ resp'.op = "DELETE" /\ resp'.out = "204"
         /\ keystore' = GraphDelete(keystore, resp'.uid)
         /\ resp'.uid \in DOMAIN challenge_cache'
         /\ SolutionEquals(challenge_cache'[resp'.uid], resp'.solution)
         /\ IsFresh(challenge_cache'[resp'.uid], now)]_vars

\* a DELETE with the right solution has removed the user
C11_Witness ==
    /\ resp.op = "DELETE" /\ resp.out = "204"
    /\ resp.uid \in DOMAIN InitKeystore \ DOMAIN keystore
    /\ resp.uid \in DOMAIN challenge_cache
    /\ challenge_cache[resp.uid].solution = resp.solution

\* C12 (no failure oracle): a PATCH/DELETE that fails because the user does
\* not exist, because the challenge had expired or because the solution is
\* wrong gets the same answer, 401.
C12_NoFailureOracle ==
    LET nonexistent == resp.uid \notin DOMAIN InitKeystore
        expired == Usable(resp.uid) /\ resp.had = "expired"
                     /\ resp.out # "204"
        wrong == Usable(resp.uid) /\ resp.had = "fresh"
                     /\ resp.out # "204"
    IN  (resp.op \in {"PATCH", "DELETE"}
           /\ (nonexistent \/ expired \/ wrong))
        => resp.out = "401"

\* C13 (cryptographic failure): when the stored key of U cannot be used by
\* the cipher, a regeneration for U fails with the cipher's exception:
\* validate_challenge(U, s) returns neither True nor False, get_challenge(U)
\* hands out no payload, and no record is stored.
C13_CryptoFailurePropagates ==
    (/\ resp.op \in {"get", "validate"}
     /\ resp.uid \in DOMAIN keystore
     /\ ~keystore[resp.uid].usable
     /\ resp.had # "fresh")
    => /\ resp.out = "ValueError"
       /\ resp.payload = NoPayload
       /\ resp.uid \notin DOMAIN challenge_cache

\* a validation for a user with an unusable key has raised
C13_Witness ==
    /\ resp.op = "validate"
    /\ resp.uid \in DOMAIN keystore /\ ~keystore[resp.uid].usable
    /\ resp.out = "ValueError"

\* the entry of u differs between the two states of a step
EntryChanged(u) ==
    \/ (u \in DOMAIN challenge_cache) # (u \in DOMAIN challenge_cache')
    \/ /\ u \in DOMAIN challenge_cache
       /\ u \in DOMAIN challenge_cache'
       /\ challenge_cache[u] # challenge_cache'[u]

\* C14 (frame of the cache): the entry of U is created, replaced or removed
\* only in a step that handles a request for U that found U's entry absent
\* or expired; every other step (a request for U that finds a fresh record,
\* whatever its outcome, a request for another user, a clock tick) leaves
\* U's entry as it was, expiry included, even when it has expired.
C14_CacheFrame ==
    [][\A u \in Uids :
         EntryChanged(u) =>
           /\ Had(u) # "fresh"
           /\ resp'.uid = u
           /\ resp'.op \in {"get", "validate", "PATCH", "DELETE"}
           /\ resp'.had = Had(u)]_vars

\* a request for one user found its record fresh and an accepted solution
\* left it in place, while the expired entry of another user is still held
C14_Witness ==
    /\ resp.op = "validate" /\ resp.had = "fresh" /\ resp.out = "True"
    /\ resp.uid \in DOMAIN challenge_cache
    /\ \E v \in DOMAIN challenge_cache :
         v # resp.uid /\ ~IsFresh(challenge_cache[v], now)

\* C15 (validity window): in a step that handles get_challenge or
\* validate_challenge for a user with a usable key, a record held with
\* now < expiry is kept as it is; a record held with now >= expiry (also
\* now = expiry) is replaced by a new one; a new record has
\* expiry = now + challenge_expiry_time; and with a duration of 0 every
\* such access stores a new record.
C15_ValidityWindow ==
    [][\A u \in Uids :
         (/\ resp'.uid = u /\ resp' # resp
          /\ resp'.op \in {"get", "validate"}
          /\ Usable(u))
         => LET D == config.challenge_expiry_time IN
            /\ u \in DOMAIN challenge_cache'
            /\ IF u \in DOMAIN challenge_cache
                  /\ now < challenge_cache[u].expiry
               THEN challenge_cache'[u] = challenge_cache[u]
                    /\ ~resp'.regen
               ELSE /\ resp'.regen
                    /\ challenge_cache'[u].expiry = now + D
                    /\ u \in DOMAIN challenge_cache
                         => challenge_cache'[u] # challenge_cache[u]
            /\ D = 0 => resp'.regen]_vars

\* with a positive duration, an access at the very time of a record's
\* expiry has replaced it
C15_Witness ==
    /\ resp.op \in {"get", "validate"} /\ resp.regen
    /\ resp.had = "expired"
    /\ config.challenge_expiry_time > 0
    /\ \E k \in DOMAIN issued :
         /\ issued[k].uid = resp.uid
         /\ issued[k].rec.expiry = now
         /\ issued[k].rec # challenge_cache[resp.uid]

\* C16 (deleted user): validate_challenge(U, s) does not return True when
\* the key store has no user U, also when U was deleted while a record
\* issued to U is still unexpired in the cache.
C16_DeletedUserRejected ==
    (resp.op = "validate" /\ resp.uid \notin DOMAIN keystore)
    => resp.out # "True"

\* C18 (failed regeneration): a request for U whose key fetch fails (no
\* user U in the store, or the query failed) found U's entry absent or
\* expired, and after it the cache has no entry for U while the entries of
\* all other users are as before; and validate_challenge for a user the
\* store does not have, finding no fresh record, fails in this way.
C18_FailedRegeneration ==
    [][/\ (resp' # resp /\ resp'.out = "TypeError")
          => /\ Had(resp'.uid) # "fresh"
             /\ resp'.uid \notin DOMAIN challenge_cache'
             /\ \A v \in Uids \ {resp'.uid} : ~EntryChanged(v)
       /\ (/\ resp' # resp /\ resp'.op = "validate"
           /\ resp'.uid \notin DOMAIN keystore
           /\ Had(resp'.uid) # "fresh")
          => resp'.out = "TypeError"]_vars

\* the key fetch failed for a user whose entry had expired: the entry is
\* gone, the record of another user is still held
C18_Witness ==
    /\ resp.out = "TypeError" /\ resp.had = "expired"
    /\ resp.uid \notin DOMAIN challenge_cache
    /\ \E k \in DOMAIN issued : issued[k].uid = resp.uid
    /\ \E v \in DOMAIN challenge_cache : v # resp.uid

\* C21 (missing solution): a PATCH or DELETE for a stored user whose body
\* has no "solution" field is answered 422, the user stays in the store and
\* the cache is left as it was.
C21_MissingSolution ==
    [][(resp' # resp /\ resp'.missing)
         => /\ resp'.out = "422"
            /\ keystore' = keystore
            /\ challenge_cache' = challenge_cache]_vars

---------------------------------------------------------------------------
(* Properties of the concurrent specification: interleaved requests *)

\* C19 (per-key atomicity): no request fails with a missing-entry error
\* (KeyError on challenge_cache[uid] or challenge_cache.pop(uid)) because
\* another request evicted the entry between its steps.
C19_PerKeyAtomicity ==
    \A t \in Threads : ~(th[t].pc = "done" /\ th[t].out = "KeyError")

\* C20 (handed-out payloads stay valid): while now is before the expiry of
\* a payload handed to a client, the cache holds the record of that
\* payload for the user, and a validate_challenge for the user with the
\* solution of that payload returns True.
C20_HandedPayloadValid ==
    \A h \in handed :
        now < h.payload.expiry =>
          /\ h.uid \in DOMAIN challenge_cache
               => Payload(challenge_cache[h.uid]) = h.payload
          /\ \A t \in Threads :
               (/\ th[t].pc = "done" /\ th[t].op = "validate"
                /\ th[t].uid = h.uid
                /\ th[t].solution = ClientSolve(h.uid, h.payload))
               => th[t].out = "True"

=============================================================================
